---------------------------- MODULE Spec2Model ----------------------------
(***************************************************************************)
(* A model of the live spectrogram application.                            *)
(*                                                                         *)
(*   SpecTick  the scroll buffer: generateVertices, updateSpectrogramData, *)
(*             updateMeshDisplacement and one frame of the animation loop, *)
(*             on real arrays of bytes.                                    *)
(*   Spec      the session: RadioPlayer's handlers and their asynchronous  *)
(*             completions, the props it renders into LiveSpectrogram, and *)
(*             LiveSpectrogram's main effect, cleanup, async init and      *)
(*             animation-frame chain, over the browser objects they use    *)
(*             (audio elements, microphone streams and contexts, audio     *)
(*             nodes, renderers, resize listeners, scheduled frames).      *)
(*             It follows the first LiveSpectrogram instance from its      *)
(*             mount until after its unmount.                              *)
(*                                                                         *)
(* Typed arrays are sequences; the 0-based index i of the source is the    *)
(* position i+1 of the sequence.                                           *)
(***************************************************************************)
EXTENDS Integers, Sequences, FiniteSets, TLC

VARIABLES
    geo,          \* the parameters the current geometry was built from
    heights,      \* GeometryData.heights (Uint8Array, one byte per vertex)
    dataArray,    \* dataRef.current (Uint8Array(frequencySamples))
    displacement, \* the mesh's 'displacement' attribute array
    frame,        \* the displacement values the renderer read at its last draw
    before,       \* heights as they were when the last tick began
    lastSample,   \* the analyser sample of the last tick
    ticks,        \* ticks since the geometry was built
    order,        \* the steps of the last tick, in the order they ran
    rp,           \* RadioPlayer: its React state and refs
    pend,         \* RadioPlayer: handlers suspended at an await
    ls,           \* LiveSpectrogram: mount status, rendered props, refs, effect runs
    web,          \* browser objects
    td,           \* a teardown call: the refs it finds and how it went
    calc,         \* a call of a helper function: its arguments and result
    loop          \* the loop createAnimationLoop returned, once handed out

tickVars == <<geo, heights, dataArray, displacement, frame, before, lastSample,
              ticks, order>>

sessionVars == <<rp, pend, ls, web>>

vars == <<tickVars, sessionVars, td, calc, loop>>

-----------------------------------------------------------------------------
(* Bounds of the model.                                                    *)

MaxFreq == 2    \* frequencySamples ranges over 1..MaxFreq
MaxTime == 2    \* timeSamples ranges over 1..MaxTime
MaxByte == 2    \* analyser bytes range over 0..MaxByte (0..255 in the browser)
MaxTicks == 4   \* ticks counted per geometry

FreqValues == 1..MaxFreq
TimeValues == 1..MaxTime
Bytes == 0..MaxByte

Min(a, b) == IF a < b THEN a ELSE b
Max(a, b) == IF a > b THEN a ELSE b

Zeros(n) == [k \in 1..n |-> 0]

-----------------------------------------------------------------------------
(* Typed-array primitives, as the source uses them.                        *)

\* a[i] || 0 : an index outside the array reads undefined, which || turns to 0
Get(a, i) == IF i \in 0..(Len(a) - 1) THEN a[i + 1] ELSE 0

\* a[i] = v : a write outside a typed array is ignored
Put(a, i, v) == IF i \in 0..(Len(a) - 1) THEN [a EXCEPT ![i + 1] = v] ELSE a

\* a copyWithin that copies nothing
CopyWithinNothing(a, target, start, end) == a

\* a.copyWithin(target, start, end) for non-negative arguments: the bounds are
\* clamped to the length and the copy reads the values held before it began
CopyWithin(a, target, start, end) ==
    LET len   == Len(a)
        to    == Min(target, len)
        from  == Min(start, len)
        final == Min(end, len)
        count == Min(final - from, len - to)
    IN  [k \in 1..len |->
            IF (k - 1) \in to..(to + count - 1)
            THEN a[from + (k - 1 - to) + 1]
            ELSE a[k]]

\* calculateVertexCount counting segments instead of vertices
calculateVertexCountSegments(frequencySamples, timeSamples) ==
    frequencySamples * timeSamples

\* calculateVertexCount
calculateVertexCount(frequencySamples, timeSamples) ==
    (frequencySamples + 1) * (timeSamples + 1)

\* the loops of generateVertices from (i, j) on: vertices.push(x, y, 0) and
\* heights[i * (ysegments + 1) + j] = 0; x and y are kept as grid positions
RECURSIVE VertexLoop(_, _, _, _, _)
VertexLoop(i, j, xsegments, ysegments, acc) ==
    IF i > xsegments THEN acc
    ELSE IF j > ysegments THEN VertexLoop(i + 1, 0, xsegments, ysegments, acc)
    ELSE VertexLoop(i, j + 1, xsegments, ysegments,
                    [vertices |-> acc.vertices \o <<i, j, 0>>,
                     heights |-> Put(acc.heights, i * (ysegments + 1) + j, 0)])

\* generateVertices with a heights array that is not cleared
generateVerticesUncleared(timeSamples, frequencySamples) ==
    LET n == calculateVertexCount(frequencySamples, timeSamples)
    IN  [nVertices |-> n, heights |-> [k \in 1..n |-> 1], nCoords |-> 3 * n]

\* generateVertices: the vertex count and the zeroed heights buffer
generateVertices(timeSamples, frequencySamples) ==
    LET nVertices == (frequencySamples + 1) * (timeSamples + 1)
        done == VertexLoop(0, 0, timeSamples, frequencySamples,
                           [vertices |-> <<>>, heights |-> Zeros(nVertices)])
    IN  [nVertices |-> nVertices,
         heights   |-> done.heights,
         nCoords   |-> Len(done.vertices)]

\* the loops of generateIndices from quad (i, j) on
RECURSIVE IndexLoop(_, _, _, _, _)
IndexLoop(i, j, xsegments, ysegments, indices) ==
    IF i >= xsegments THEN indices
    ELSE IF j >= ysegments THEN IndexLoop(i + 1, 0, xsegments, ysegments, indices)
    ELSE LET a == i * (ysegments + 1) + (j + 1)
             b == i * (ysegments + 1) + j
             c == (i + 1) * (ysegments + 1) + j
             d == (i + 1) * (ysegments + 1) + (j + 1)
         IN  IndexLoop(i, j + 1, xsegments, ysegments,
                       indices \o <<a, b, d>> \o <<b, c, d>>)

\* generateIndices with the second triangle of a quad wound as (b, d, c)
generateIndicesRewound(timeSamples, frequencySamples) ==
    LET x == IndexLoop(0, 0, timeSamples, frequencySamples, <<>>)
    IN  [k \in 1..Len(x) |-> IF k % 6 = 5 THEN x[k + 1]
                              ELSE IF k % 6 = 0 THEN x[k - 1] ELSE x[k]]

\* generateIndices
generateIndices(timeSamples, frequencySamples) ==
    IndexLoop(0, 0, timeSamples, frequencySamples, <<>>)

\* insertStart one element past the start of the last column
InsertStartPastEnd(frequencySamples, nVertices) ==
    nVertices - frequencySamples

\* insertStart at the start of the last column
InsertStartLastColumn(frequencySamples, nVertices) ==
    nVertices - (frequencySamples + 1)

\* The column insertStart of a tick: end_val - start_val
InsertStart(frequencySamples, nVertices) ==
    LET start_val == frequencySamples + 1
        end_val   == nVertices - start_val
    IN  end_val - start_val

\* the for loop with the closing vertex read from dataArray like the bins
RECURSIVE InsertColumnUnclosed(_, _, _, _, _)
InsertColumnUnclosed(h, data, insertStart, frequencySamples, j) ==
    IF j > frequencySamples THEN h
    ELSE InsertColumnUnclosed(Put(h, insertStart + j, Get(data, j)),
                              data, insertStart, frequencySamples, j + 1)

\* The for loop of updateSpectrogramData, from iteration j on
RECURSIVE InsertColumn(_, _, _, _, _)
InsertColumn(h, data, insertStart, frequencySamples, j) ==
    IF j > frequencySamples THEN h
    ELSE InsertColumn(
            Put(h, insertStart + j,
                IF j < frequencySamples
                THEN Get(data, j)
                ELSE Get(h, insertStart + j - 1)),
            data, insertStart, frequencySamples, j + 1)

\* updateSpectrogramData: sample is what getByteFrequencyData wrote to tempData
updateSpectrogramData(sample, data, h, frequencySamples, nVertices) ==
    LET newData   == [k \in 1..Len(data) |->
                         IF k <= Len(sample) THEN sample[k] ELSE data[k]]
        start_val == frequencySamples + 1
        shifted   == CopyWithin(h, 0, start_val, nVertices + 1)
    IN  [dataArray |-> newData,
         heights   |-> InsertColumn(shifted, newData,
                                    InsertStart(frequencySamples, nVertices),
                                    frequencySamples, 0)]

\* the indices of a that a.copyWithin(target, start, end) reads and writes
CopyWithinReads(len, target, start, end) ==
    LET to    == Min(target, len)
        from  == Min(start, len)
        final == Min(end, len)
        count == Min(final - from, len - to)
    IN  {from + k : k \in 0..(count - 1)}

CopyWithinWrites(len, target, start, end) ==
    LET to    == Min(target, len)
        from  == Min(start, len)
        final == Min(end, len)
        count == Min(final - from, len - to)
    IN  {to + k : k \in 0..(count - 1)}

\* the indices of heights a call of updateSpectrogramData writes and reads,
\* and the indices of dataArray its loop reads
HeightsWrites(len, frequencySamples, nVertices) ==
    CopyWithinWrites(len, 0, frequencySamples + 1, nVertices + 1)
        \cup {InsertStart(frequencySamples, nVertices) + j :
                 j \in 0..frequencySamples}

HeightsReads(len, frequencySamples, nVertices) ==
    CopyWithinReads(len, 0, frequencySamples + 1, nVertices + 1)
        \cup {InsertStart(frequencySamples, nVertices) + frequencySamples - 1}

SampleReads(frequencySamples) == {j \in 0..frequencySamples : j < frequencySamples}

\* updateMeshDisplacement: array.set(heights)
updateMeshDisplacement(array, h) ==
    [k \in 1..Len(array) |-> IF k <= Len(h) THEN h[k] ELSE array[k]]

-----------------------------------------------------------------------------
(* One frame of animate, statement by statement. Each step takes the frame's  *)
(* state s and returns it after the statement; steps records what ran.         *)

StepUpdate(s, sample) ==
    LET u == updateSpectrogramData(sample, s.dataArray, s.heights,
                                   s.frequencySamples, s.nVertices)
    IN  [s EXCEPT !.dataArray = u.dataArray, !.heights = u.heights,
                  !.steps = @ \o <<"sample", "scroll">>]

StepDisplace(s) ==
    [s EXCEPT !.displacement = updateMeshDisplacement(s.displacement, s.heights),
              !.steps = @ \o <<"push">>]

StepRender(s) ==
    [s EXCEPT !.frame = s.displacement, !.steps = @ \o <<"draw">>]

StepRequestFrame(s) ==
    [s EXCEPT !.scheduled = TRUE, !.steps = @ \o <<"schedule">>]

\* animate with the draw moved before the update of the heights
AnimateFrameRenderFirst(s, sample) ==
    StepRequestFrame(StepDisplace(StepUpdate(StepRender(s), sample)))

\* the body of animate once its guard has passed
AnimateFrame(s, sample) ==
    StepRequestFrame(StepRender(StepDisplace(StepUpdate(s, sample))))

FrameState(h, data, disp, fr, frequencySamples, nVertices) ==
    [heights |-> h, dataArray |-> data, displacement |-> disp, frame |-> fr,
     frequencySamples |-> frequencySamples, nVertices |-> nVertices,
     scheduled |-> FALSE, steps |-> <<>>]

-----------------------------------------------------------------------------
(* The session's objects. Object identities are numbers from 1; 0 is null.  *)
(* A pipeline (audio context, analyser and source node), a scene (scene,    *)
(* camera, renderer, mesh, resize handler) and an animation-frame chain     *)
(* carry the number of the effect run whose init created them.             *)

MaxRuns == 3    \* runs of the main effect that start an init
MaxMics == 2    \* microphone streams (each with its AudioContext) granted
MaxElems == 2   \* <audio> elements mounted
MaxStops == 2   \* handleTurnOnMic calls awaiting stopMicrophone
MaxReqs == 2    \* handleTurnOnMic calls awaiting requestMicrophoneAccess
MaxPlays == 1   \* handleStartRadio timers whose play() has not settled
MaxSuspends == 1 \* times the browser suspends a microphone context
Level == 1      \* the byte every analyser bin delivers during a session

Runs == 1..MaxRuns
Mics == 1..MaxMics
XSizeValues == {0, 50}   \* 0: a value validateParameters rejects
YSizeValues == {30, 40}

NoCtx == [kind |-> "none", id |-> 0]
MicCtx(m) == [kind |-> "mic", id |-> m]
RadioCtx(p) == [kind |-> "radio", id |-> p]

NoProps ==
    [isActive |-> FALSE, audioElement |-> 0, micStream |-> 0,
     micAudioContext |-> 0, frequencySamples |-> 0, timeSamples |-> 0,
     xsize |-> 0, ysize |-> 0]

\* zoom, maxHeight and colorScheme as one render passes them; 0 is "none"
ZoomValues == {64, 65}
MaxHeightValues == {8, 9}
ColorSchemeValues == {1, 2}
NoView == [zoom |-> 0, maxHeight |-> 0, colorScheme |-> 0]

NoRun == [pc |-> "none", props |-> NoProps, view |-> NoView]

\* the refs of a LiveSpectrogram instance as useRef creates them
Refs0 ==
    [containerRef |-> FALSE,
     animationFrameRef |-> 0,
     audioContextRef |-> NoCtx,
     analyserRef |-> 0,
     sourceRef |-> 0,
     connectedAudioElementRef |-> 0,
     connectedMicStreamRef |-> 0,
     sceneRef |-> 0,            \* sceneRef, cameraRef, rendererRef, meshRef
     built |-> NoProps,         \* the props the mesh geometry was created from
     builtView |-> NoView,      \* the view the scene was created with
     meshDisplacement |-> <<>>, \* the mesh's displacement attribute
     heightsRef |-> <<>>,       \* <<>> is null
     dataRef |-> <<>>,          \* <<>> is null
     resizeHandlerRef |-> 0,
     nVerticesRef |-> 0,
     indexBuffer |-> <<>>,      \* the index of the mesh geometry
     cameraZ |-> 0,             \* cameraRef.current.position.z
     uniforms |-> NoView]       \* maxHeight and colorScheme of the material

SessionStart(f, t, xs, ys) ==
    /\ rp = [isRadioActive |-> FALSE, isMicActive |-> FALSE, error |-> "none",
             audioElement |-> 0, radioAudioRef |-> 0,
             micStreamRef |-> 0, micAudioContextRef |-> 0,
             frequencySamples |-> f, timeSamples |-> t,
             xsize |-> xs, ysize |-> ys,
             zoom |-> 64, maxHeight |-> 8, colorScheme |-> 1]
    /\ pend = [stops |-> <<>>, requests |-> 0, plays |-> 0]
    /\ ls = [mounted |-> "none", props |-> NoProps, view |-> NoView,
             hasCleanup |-> FALSE,
             refs |-> Refs0, runs |-> [i \in Runs |-> NoRun], nRuns |-> 0,
             uncaught |-> FALSE, full |-> FALSE,
             \* history: the last render changed only a structural parameter
             \* and met a running session; the last re-init discarded a
             \* buffer that ticks had written
             rebuilding |-> FALSE, discarded |-> FALSE]
    /\ web = [nMics |-> 0, nElems |-> 0, nSuspends |-> 0,
              live |-> {},                        \* streams with a live track
              ctxState |-> [m \in Mics |-> "none"], \* microphone AudioContexts
              boundElems |-> {},   \* elements given to createMediaElementSource
              openCtx |-> {},      \* pipelines whose radio AudioContext is open
              connected |-> {},    \* pipelines whose source feeds its analyser
              listeners |-> {},    \* scenes whose resize handler is registered
              renderers |-> {},    \* scenes whose renderer is not disposed
              raf |-> {}]          \* chains with a frame callback scheduled

-----------------------------------------------------------------------------
(* Helper functions. A call is recorded in calc: the function, its          *)
(* arguments, whether it has returned, and the result.                      *)

NoCall == [fn |-> "none", arg |-> 0, returned |-> FALSE, out |-> 0]

\* no loop handed out: nothing scheduled, the session not stopped, no frame
\* run, none of them after the stop
NoLoop == [scheduled |-> FALSE, stopped |-> FALSE, frames |-> 0,
           afterStop |-> 0]

RECURSIVE Pow(_, _)
Pow(b, e) == IF e <= 0 THEN 1 ELSE b * Pow(b, e - 1)

\* Math.floor(Math.log2(value)) for an integer value >= 1
RECURSIVE FloorLog2(_)
FloorLog2(value) == IF value < 2 THEN 0 ELSE 1 + FloorLog2(value \div 2)

\* Math.round(Math.log2(value)) for an integer value >= 1: log2(value) is at
\* least k + 1/2 exactly when value^2 >= 2 * 4^k
RoundLog2(value) ==
    LET k == FloorLog2(value)
    IN  IF (value * value) \div 2 >= Pow(4, k) THEN k + 1 ELSE k

MIN_FFT_SIZE == 256
MAX_FFT_SIZE == 16384
FFT_MULTIPLIER == 4

\* getNearestPowerOf2
getNearestPowerOf2(value) ==
    IF value <= 0 THEN MIN_FFT_SIZE
    ELSE LET power == RoundLog2(value)
         IN  Pow(2, Max(FloorLog2(MIN_FFT_SIZE),
                        Min(FloorLog2(MAX_FFT_SIZE), power)))

\* calculateFFTSize returning the smallest FFT size whatever the argument
calculateFFTSizeSmallest(frequencySamples) == MIN_FFT_SIZE

\* calculateFFTSize without the rounding to a power of two
calculateFFTSizeUnrounded(frequencySamples) ==
    Max(MIN_FFT_SIZE, Min(MAX_FFT_SIZE, FFT_MULTIPLIER * frequencySamples))

\* calculateFFTSize
calculateFFTSize(frequencySamples) ==
    getNearestPowerOf2(FFT_MULTIPLIER * frequencySamples)

\* RadioPlayer's FFT_SIZE without the rounding and the clamp
RadioPlayerFftSizeExact(frequencySamples) == 4 * frequencySamples

\* analyser.frequencyBinCount for an analyser of the given fftSize
frequencyBinCount(fftSize) == fftSize \div 2

\* analyser.getByteFrequencyData(tempData): the number of entries of
\* tempData, of the given length, that receive an analyser bin
BinsFilled(length, fftSize) == Min(Max(length, 0), frequencyBinCount(fftSize))

\* RadioPlayer's FFT_SIZE, the value the controls panel displays
RadioPlayerFftSize(frequencySamples) ==
    LET value == 4 * frequencySamples
    IN  IF value <= 0 THEN 256
        ELSE Pow(2, Max(8, Min(14, RoundLog2(value))))

-----------------------------------------------------------------------------
(* The fragment shader. A colour is <<r, g, b>> with each component in units *)
(* of 1/Unit, so that every value the shader computes for a displacement     *)
(* 0..255 is an integer.                                                     *)

MaxDisplacement == 255          \* intensity = vDisplacement / 255.0

Unit == MaxDisplacement * 100000

\* intensity for displacement d, in units
Intensity(d) == d * 100000

Hundredths(r, g, b) == <<r * (Unit \div 100), g * (Unit \div 100), b * (Unit \div 100)>>

\* the purple of schemes 3 and default: purpleX * (0.3 + intensity * 0.7)
Purple(d) == <<2627 * (765 + 7 * d), 2471 * (765 + 7 * d), 5059 * (765 + 7 * d)>>

\* getColor(intensity) under uniform colorScheme
getColor(colorScheme, d) ==
    LET I == Intensity(d)
        U == Unit
        half == I - (U \div 2)         \* intensity - 0.5
        hue == 5 * I                    \* intensity * 5.0
    IN  CASE colorScheme = 0 -> <<I, U - I, 0>>
          [] colorScheme = 1 ->
                IF 2 * d < MaxDisplacement
                THEN <<I, (2 * I) \div 5, 2 * I>>
                ELSE <<(U \div 2) + half, (U \div 5) + (8 * half) \div 5, U - half>>
          [] colorScheme = 2 -> <<0, I, U>>
          [] colorScheme = 3 -> Purple(d)
          [] colorScheme = 4 -> <<U, I, 0>>
          [] colorScheme = 5 -> <<I, 0, U>>
          [] colorScheme = 6 ->
                IF hue < U THEN <<U, hue, 0>>
                ELSE IF hue < 2 * U THEN <<2 * U - hue, U, 0>>
                ELSE IF hue < 3 * U THEN <<0, U, hue - 2 * U>>
                ELSE IF hue < 4 * U THEN <<0, 4 * U - hue, U>>
                ELSE IF hue < 5 * U THEN <<hue - 4 * U, 0, U>>
                ELSE <<U, 0, 6 * U - hue>>
          [] colorScheme = 7 -> <<I, I, I>>
          [] colorScheme = 8 -> <<U, (U - I) \div 2, 0>>
          [] colorScheme = 9 -> <<0, U - I, U>>
          [] colorScheme = 10 -> <<U - I, U, 0>>
          [] OTHER -> Purple(d)

\* the dark tint main assigns when intensity < 0.01
darkTint(colorScheme) ==
    CASE colorScheme = 0 -> Hundredths(0, 10, 0)
      [] colorScheme = 1 -> Hundredths(5, 0, 10)
      [] colorScheme = 2 -> Hundredths(0, 0, 10)
      [] colorScheme = 3 -> Hundredths(8, 7, 15)
      [] colorScheme = 4 -> Hundredths(10, 0, 0)
      [] colorScheme = 5 -> Hundredths(0, 0, 10)
      [] colorScheme = 6 -> Hundredths(5, 0, 0)
      [] colorScheme = 7 -> Hundredths(5, 5, 5)
      [] colorScheme = 8 -> Hundredths(10, 5, 0)
      [] colorScheme = 9 -> Hundredths(0, 10, 10)
      [] colorScheme = 10 -> Hundredths(10, 10, 0)
      [] OTHER -> Hundredths(8, 7, 15)

\* color + glow, with glow = intensity > 0.5 ? (intensity - 0.5) * 0.5 : 0.0
finalColor(colorScheme, d) ==
    LET color == getColor(colorScheme, d)
        glow  == IF 2 * d > MaxDisplacement
                 THEN (Intensity(d) - (Unit \div 2)) \div 2 ELSE 0
    IN  <<color[1] + glow, color[2] + glow, color[3] + glow>>

\* main without the branch for intensity < 0.01
fragmentMainUntinted(colorScheme, d) == finalColor(colorScheme, d)

\* main: the rgb of gl_FragColor
fragmentMain(colorScheme, d) ==
    IF 100 * d < MaxDisplacement        \* intensity < 0.01
    THEN darkTint(colorScheme)
    ELSE finalColor(colorScheme, d)

-----------------------------------------------------------------------------
(* validateParameters with its list of errors.                              *)

\* if (v <= 0) errors.push(name)
PushIfNotPositive(errors, v, name) ==
    IF v <= 0 THEN Append(errors, name) ELSE errors

\* validateParameters stopping at the first error
validateParametersFirstError(params) ==
    LET e == IF params.xsize <= 0 THEN <<"xsize">>
             ELSE IF params.ysize <= 0 THEN <<"ysize">>
             ELSE IF params.frequencySamples <= 0 THEN <<"frequencySamples">>
             ELSE IF params.timeSamples <= 0 THEN <<"timeSamples">>
             ELSE <<>>
    IN  [valid |-> Len(e) = 0, errors |-> e]

\* validateParameters: { valid, errors }
validateParametersResult(params) ==
    LET e1 == PushIfNotPositive(<<>>, params.xsize, "xsize")
        e2 == PushIfNotPositive(e1, params.ysize, "ysize")
        e3 == PushIfNotPositive(e2, params.frequencySamples, "frequencySamples")
        e4 == PushIfNotPositive(e3, params.timeSamples, "timeSamples")
    IN  [valid |-> Len(e4) = 0, errors |-> e4]

-----------------------------------------------------------------------------
(* The logarithmic frequency axis. For ysize = b^totalSegments the powers   *)
(* e^(((n - j) / n) * ln ysize) are the integers b^(n - j); y is returned in *)
(* halves, so that ysize / 2 is an integer for odd ysize too.                *)

\* the b with b^n = ysize
Root(ysize, n) == CHOOSE b \in 1..ysize : Pow(b, n) = ysize

\* calculateLogarithmicY(segmentIndex, totalSegments, ysize), in halves
calculateLogarithmicY(segmentIndex, totalSegments, ysize) ==
    LET yhalfSize == ysize                  \* ysize / 2, in halves
        power     == Pow(Root(ysize, totalSegments),
                         totalSegments - segmentIndex)
    IN  -(2 * power) + yhalfSize + 2

-----------------------------------------------------------------------------
(* Teardown, statement by statement. A call finds refs c (which of them are    *)
(* set, the state of the audio context) in an environment where                *)
(* source.disconnect() may throw and close() may reject. Its outcome o records *)
(* the statements that ran, an exception leaving the call, and a rejected      *)
(* promise nobody handles.                                                     *)

MaxCalls == 2    \* cleanup calls in a row

ContextStates == {"null", "running", "closed"}

TeardownRefs ==
    [animationFrameRef : BOOLEAN, resizeHandlerRef : BOOLEAN,
     connectedMicStreamRef : BOOLEAN, sourceRef : BOOLEAN,
     audioContextRef : ContextStates,
     rendererRef : BOOLEAN, meshRef : BOOLEAN, sceneRef : BOOLEAN,
     containerRef : BOOLEAN,
     disconnectThrows : BOOLEAN, closeRejects : BOOLEAN]

NoOutcome == [threw |-> FALSE, unhandled |-> FALSE, log |-> <<>>]

NoTeardown == [refs |-> <<>>, first |-> <<>>, out |-> NoOutcome, calls |-> 0]

\* a statement that cannot throw
Run(o, name) == IF o.threw THEN o ELSE [o EXCEPT !.log = Append(@, name)]

\* source.disconnect(): it may throw
sourceDisconnect(o, throws) ==
    IF o.threw THEN o
    ELSE [o EXCEPT !.log = Append(@, "disconnect"), !.threw = throws]

\* source.disconnect() with no try around it
DisconnectUncaught(o, throws) == sourceDisconnect(o, throws)

\* try { source.disconnect() } catch (e) { }: the catch swallows the throw
TryDisconnect(o, throws) ==
    LET r == sourceDisconnect(o, throws)
    IN  [r EXCEPT !.threw = o.threw]

\* audioContext.close(): the promise it returns may reject
Close(o, rejects) ==
    IF o.threw THEN o
    ELSE [o EXCEPT !.log = Append(@, "close"),
                   !.unhandled = @ \/ rejects]

\* audioContext.close().catch(() => {}): the handler takes the rejection
CloseAndCatch(o, rejects) ==
    LET r == Close(o, rejects)
    IN  [r EXCEPT !.unhandled = o.unhandled]

\* cleanupAudio(source, audioContext), statement by statement
cleanupAudioRun(o, c) ==
    LET o1 == IF c.sourceRef THEN TryDisconnect(o, c.disconnectThrows) ELSE o
    IN  IF c.audioContextRef = "running"
        THEN CloseAndCatch(o1, c.closeRejects)
        ELSE o1

\* cleanupThreeScene(renderer, mesh, scene, container), statement by statement
cleanupThreeSceneRun(o, c) ==
    LET o1 == IF c.rendererRef
              THEN IF c.containerRef
                   THEN Run(Run(o, "renderer.dispose"), "removeChild")
                   ELSE Run(o, "renderer.dispose")
              ELSE o
    IN  IF c.meshRef
        THEN IF c.sceneRef
             THEN Run(Run(o1, "mesh.dispose"), "scene.remove")
             ELSE Run(o1, "mesh.dispose")
        ELSE o1

\* cleanup, statement by statement, on refs c
cleanupRun(c) ==
    LET o1 == IF c.animationFrameRef
              THEN Run(NoOutcome, "cancelAnimationFrame") ELSE NoOutcome
        o2 == IF c.resizeHandlerRef THEN Run(o1, "removeEventListener") ELSE o1
        o3 == IF c.connectedMicStreamRef
              THEN Run(IF c.sourceRef
                       THEN TryDisconnect(o2, c.disconnectThrows) ELSE o2,
                       "sourceRef = null")
              ELSE LET a == Run(cleanupAudioRun(o2, c), "sourceRef = null")
                       \* the second close() of a context cleanupAudio has
                       \* closed, or of a closed one, rejects
                       b == IF c.audioContextRef # "null"
                            THEN CloseAndCatch(a, TRUE) ELSE a
                   IN  Run(b, "audioContextRef = null")
        o4 == Run(o3, "analyserRef = null")
    IN  Run(cleanupThreeSceneRun(o4, c), "sceneRef = null")

\* the refs as cleanup leaves them
AfterCleanup(c) ==
    [c EXCEPT !.animationFrameRef = FALSE, !.resizeHandlerRef = FALSE,
              !.connectedMicStreamRef = FALSE, !.sourceRef = FALSE,
              !.audioContextRef = IF c.connectedMicStreamRef THEN @ ELSE "null",
              !.rendererRef = FALSE, !.meshRef = FALSE, !.sceneRef = FALSE]

-----------------------------------------------------------------------------
(* SpecTick: a geometry and the ticks on it.                               *)

Geometry(timeSamples, frequencySamples) ==
    [timeSamples |-> timeSamples, frequencySamples |-> frequencySamples,
     nVertices |-> generateVertices(timeSamples, frequencySamples).nVertices,
     nCoords |-> generateVertices(timeSamples, frequencySamples).nCoords,
     indices |-> generateIndices(timeSamples, frequencySamples)]

BuildState(timeSamples, frequencySamples) ==
    /\ geo = Geometry(timeSamples, frequencySamples)
    /\ heights = generateVertices(timeSamples, frequencySamples).heights
    /\ dataArray = Zeros(frequencySamples)
    /\ displacement = generateVertices(timeSamples, frequencySamples).heights
    /\ frame = generateVertices(timeSamples, frequencySamples).heights
    /\ before = generateVertices(timeSamples, frequencySamples).heights
    /\ lastSample = Zeros(frequencySamples)
    /\ ticks = 0
    /\ order = <<>>

InitTick ==
    /\ \E t \in TimeValues, f \in FreqValues : BuildState(t, f)
    /\ SessionStart(1, 1, 50, 30)
    /\ td = NoTeardown
    /\ calc = NoCall
    /\ loop = NoLoop

\* createGeometry on a parameter change: everything is built anew
Build(t, f) ==
    /\ geo' = Geometry(t, f)
    /\ heights' = generateVertices(t, f).heights
    /\ dataArray' = Zeros(f)
    /\ displacement' = generateVertices(t, f).heights
    /\ frame' = generateVertices(t, f).heights
    /\ before' = generateVertices(t, f).heights
    /\ lastSample' = Zeros(f)
    /\ ticks' = 0
    /\ order' = <<>>
    /\ UNCHANGED <<sessionVars, td, calc, loop>>

\* one animation frame on the current geometry
Tick(sample) ==
    /\ ticks < MaxTicks
    /\ LET s == AnimateFrame(
                   FrameState(heights, dataArray, displacement, frame,
                              geo.frequencySamples, geo.nVertices), sample)
       IN  /\ heights' = s.heights
           /\ dataArray' = s.dataArray
           /\ displacement' = s.displacement
           /\ frame' = s.frame
           /\ order' = s.steps
    /\ before' = heights
    /\ lastSample' = sample
    /\ ticks' = ticks + 1
    /\ UNCHANGED <<geo, sessionVars, td, calc, loop>>

NextTick ==
    \/ \E t \in TimeValues, f \in FreqValues : Build(t, f)
    \/ \E sample \in [1..geo.frequencySamples -> Bytes] : Tick(sample)

SpecTick == InitTick /\ [][NextTick]_vars

-----------------------------------------------------------------------------
(* Columns of the heights buffer.                                          *)

Stride == geo.frequencySamples + 1
NumColumns == geo.timeSamples + 1
Column(h, c) == [j \in 0..geo.frequencySamples |-> Get(h, c * Stride + j)]
ZeroColumn == [j \in 0..geo.frequencySamples |-> 0]

\* a column holding a sample: its bins, then the closing vertex repeating the last
SampleColumn(sample) ==
    [j \in 0..geo.frequencySamples |->
        IF j < geo.frequencySamples THEN sample[j + 1]
        ELSE sample[geo.frequencySamples]]

-----------------------------------------------------------------------------
(* Claims about the scroll buffer, under SpecTick.                         *)

\* C1: after every tick the newest analyser sample occupies the rightmost
\* column: heights[vertexCount - (frequencySamples+1) + j] = sample[j] for
\* every j in 0..frequencySamples-1.
C1_NewestSampleInRightmostColumn ==
    ticks > 0 =>
        \A j \in 0..(geo.frequencySamples - 1) :
            Get(heights, geo.nVertices - (geo.frequencySamples + 1) + j)
                = lastSample[j + 1]

\* C2: from a freshly built all-zero buffer, after N ticks with
\* N < timeSamples+1 the leftmost timeSamples+1-N columns are still all zero.
C2_LeftmostColumnsStayZero ==
    ticks < NumColumns =>
        \A c \in 0..(NumColumns - ticks - 1) : Column(heights, c) = ZeroColumn

\* C3: a tick keeps the buffer length, gives exactly one column the new sample,
\* and every other column c then holds what column c+1 held before the tick.
C3_OneColumnReplacedOthersShift ==
    ticks > 0 =>
        /\ Len(heights) = Len(before)
        /\ \E c \in 0..geo.timeSamples :
              /\ Column(heights, c) = SampleColumn(lastSample)
              /\ \A d \in (0..geo.timeSamples) \ {c} :
                    /\ d + 1 <= geo.timeSamples
                    /\ Column(heights, d) = Column(before, d + 1)


\* C9: within every tick the steps run in the order: read the analyser
\* sample, scroll the heights, push the heights into the displacement
\* attribute, draw the frame, schedule the next tick; the frame drawn in a
\* tick shows the heights that tick's update produced from that tick's sample.
C9_TickStepOrder ==
    ticks > 0 =>
        /\ order = <<"sample", "scroll", "push", "draw", "schedule">>
        /\ dataArray = lastSample
        /\ heights = updateSpectrogramData(lastSample, dataArray, before,
                                           geo.frequencySamples,
                                           geo.nVertices).heights
        /\ displacement = heights
        /\ frame = heights

\* C9 witness: a tick whose sample changed the heights has been drawn
C9_Witness ==
    /\ ticks > 0
    /\ heights # before
    /\ frame = heights
    /\ order # <<>>

\* C21: after every tick, in the column that received the new sample, the
\* closing vertex (entry frequencySamples of the column) equals the entry
\* just before it, which is the last value of the sample.
C21_ClosingVertexRepeatsLastBin ==
    ticks > 0 =>
        LET at == InsertStart(geo.frequencySamples, geo.nVertices)
            F  == geo.frequencySamples
        IN  /\ \A j \in 0..(F - 1) : Get(heights, at + j) = lastSample[j + 1]
            /\ Get(heights, at + F) = Get(heights, at + F - 1)
            /\ Get(heights, at + F) = lastSample[F]

\* C21 witness: a tick wrote a sample whose last bin is not zero, and the
\* closing vertex of the written column carries it
C21_Witness ==
    /\ ticks > 0
    /\ lastSample[geo.frequencySamples] # 0
    /\ geo.frequencySamples >= 2
    /\ Get(heights, InsertStart(geo.frequencySamples, geo.nVertices)
                      + geo.frequencySamples) # 0

\* C28: the heights buffer is a FIFO ring along the time axis: the sample
\* columns present are in arrival order with later samples further right,
\* each sample moves exactly one column left per tick, and a sample leaves
\* the buffer only by being shifted out of column 0. After a tick there is a
\* column p holding the new sample; every column left of p holds what its
\* right neighbour held before the tick, and nothing was or is right of p.
C28_FifoAlongTimeAxis ==
    ticks > 0 =>
        /\ Len(heights) = Len(before)
        /\ \E p \in 0..geo.timeSamples :
              /\ Column(heights, p) = SampleColumn(lastSample)
              /\ \A c \in 0..(p - 1) : Column(heights, c) = Column(before, c + 1)
              /\ \A c \in (p + 1)..geo.timeSamples :
                    /\ Column(before, c) = ZeroColumn
                    /\ Column(heights, c) = ZeroColumn

\* C28 witness: after several ticks an earlier sample that is not zero has
\* moved one column left and the new sample sits to its right
C28_Witness ==
    /\ ticks >= 2
    /\ geo.timeSamples >= 2
    /\ \E c \in 0..(geo.timeSamples - 1) :
          /\ Column(before, c + 1) # ZeroColumn
          /\ Column(heights, c) = Column(before, c + 1)
          /\ Column(heights, c + 1) = SampleColumn(lastSample)
          /\ SampleColumn(lastSample) # ZeroColumn
          /\ SampleColumn(lastSample) # Column(heights, c)

\* C32: for timeSamples >= 1 and frequencySamples >= 1 with heights of length
\* vertexCount, every index a tick reads or writes in heights lies in
\* [0, vertexCount), and every index it reads in the sample buffer lies in
\* [0, frequencySamples).
C32_TickIndicesInRange ==
    ticks > 0 =>
        LET F == geo.frequencySamples
            n == geo.nVertices
        IN  /\ Len(heights) = n
            /\ HeightsWrites(Len(before), F, n) \subseteq 0..(n - 1)
            /\ HeightsReads(Len(before), F, n) \subseteq 0..(n - 1)
            /\ SampleReads(F) \subseteq 0..(F - 1)
            /\ SampleReads(F) \subseteq 0..(Len(dataArray) - 1)

\* C32 witness: a tick ran on the narrowest geometry, where the written
\* column starts at index 0
C32_Witness ==
    /\ ticks > 0
    /\ geo.timeSamples = 1
    /\ InsertStart(geo.frequencySamples, geo.nVertices) = 0
    /\ 0 \in HeightsWrites(Len(before), geo.frequencySamples, geo.nVertices)

C19_GeometrySizes ==
    ticks = 0 =>
        /\ geo.nVertices = (geo.frequencySamples + 1) * (geo.timeSamples + 1)
        /\ Len(heights) = geo.nVertices
        /\ \A k \in 1..Len(heights) : heights[k] = 0
        /\ geo.nCoords = 3 * geo.nVertices
        /\ calculateVertexCount(geo.frequencySamples, geo.timeSamples)
              = geo.nVertices

\* C19 witness: the largest geometry has been built
C19_Witness ==
    /\ ticks = 0
    /\ geo.timeSamples = MaxTime
    /\ geo.frequencySamples = MaxFreq
    /\ Len(heights) = (MaxFreq + 1) * (MaxTime + 1)
    /\ geo.nCoords > 0

\* the six entries generateIndices emits for quad (i, j)
QuadTriangles(i, j, F) ==
    LET a == i * (F + 1) + (j + 1)
        b == i * (F + 1) + j
        c == (i + 1) * (F + 1) + j
        d == (i + 1) * (F + 1) + (j + 1)
    IN  <<a, b, d, b, c, d>>

\* C20: generateIndices emits for each quad (i, j), 0 <= i < timeSamples and
\* 0 <= j < frequencySamples, exactly the triangles (a, b, d) and (b, c, d);
\* the result has 6*timeSamples*frequencySamples entries, each of them in
\* [0, vertexCount).
C20_IndicesTwoTrianglesPerQuad ==
    LET T == geo.timeSamples
        F == geo.frequencySamples
    IN  /\ Len(geo.indices) = 6 * T * F
        /\ \A i \in 0..(T - 1) : \A j \in 0..(F - 1) :
              SubSeq(geo.indices, 6 * (i * F + j) + 1, 6 * (i * F + j) + 6)
                = QuadTriangles(i, j, F)
        /\ \A k \in 1..Len(geo.indices) :
              geo.indices[k] >= 0 /\ geo.indices[k] < geo.nVertices

\* C20 witness: the index buffer of a geometry with several quads in each
\* direction has been generated
C20_Witness ==
    /\ geo.timeSamples >= 2
    /\ geo.frequencySamples >= 2
    /\ Len(geo.indices) = 6 * geo.timeSamples * geo.frequencySamples

-----------------------------------------------------------------------------
(* LiveSpectrogram. Its functions are operators on x = [ls |-> .., web |-> ..] *)
(* that return x after the call.                                            *)

\* isAudioContextValid
isAudioContextValid(w, ctx) ==
    CASE ctx.kind = "mic"   -> w.ctxState[ctx.id] # "closed"
      [] ctx.kind = "radio" -> ctx.id \in w.openCtx
      [] OTHER              -> FALSE

\* audioContext.close()
CloseContext(w, ctx) ==
    CASE ctx.kind = "mic"   -> [w EXCEPT !.ctxState[ctx.id] = "closed"]
      [] ctx.kind = "radio" -> [w EXCEPT !.openCtx = @ \ {ctx.id}]
      [] OTHER              -> w

\* source.disconnect() inside try/catch
Disconnect(w, source) ==
    IF source # 0 THEN [w EXCEPT !.connected = @ \ {source}] ELSE w

\* cleanupAudio(source, audioContext)
cleanupAudio(w, source, ctx) ==
    LET w1 == Disconnect(w, source)
    IN  IF ctx.kind # "none" /\ isAudioContextValid(w1, ctx)
        THEN CloseContext(w1, ctx)
        ELSE w1

\* cleanupThreeScene(renderer, mesh, scene, container)
cleanupThreeScene(w, scene) ==
    IF scene # 0 THEN [w EXCEPT !.renderers = @ \ {scene}] ELSE w

\* cleanup, lines 72-82: cancel the frame, remove the resize handler
CleanupFrame(x) ==
    LET r  == x.ls.refs
        x1 == IF r.animationFrameRef # 0
              THEN [x EXCEPT !.web.raf = @ \ {r.animationFrameRef},
                             !.ls.refs.animationFrameRef = 0]
              ELSE x
    IN  IF r.resizeHandlerRef # 0
        THEN [x1 EXCEPT !.web.listeners = @ \ {r.resizeHandlerRef},
                        !.ls.refs.resizeHandlerRef = 0]
        ELSE x1

\* the audio side of cleanup if its mic branch left connectedMicStreamRef set
CleanupAudioSideKeepsMicMarker(x) ==
    LET r == x.ls.refs
    IN  IF r.connectedMicStreamRef # 0
        THEN [x EXCEPT !.web = Disconnect(@, r.sourceRef),
                       !.ls.refs.sourceRef = 0,
                       !.ls.refs.analyserRef = 0,
                       !.ls.refs.connectedAudioElementRef = 0]
        ELSE [x EXCEPT !.web = cleanupAudio(@, r.sourceRef, r.audioContextRef),
                       !.ls.refs.sourceRef = 0,
                       !.ls.refs.audioContextRef = NoCtx,
                       !.ls.refs.analyserRef = 0,
                       !.ls.refs.connectedAudioElementRef = 0]

\* cleanup, lines 84-109: the audio side, mic branch or radio branch
CleanupAudioSide(x) ==
    LET r == x.ls.refs
    IN  IF r.connectedMicStreamRef # 0
        THEN [x EXCEPT !.web = Disconnect(@, r.sourceRef),
                       !.ls.refs.sourceRef = 0,
                       !.ls.refs.connectedMicStreamRef = 0,
                       !.ls.refs.analyserRef = 0,
                       !.ls.refs.connectedAudioElementRef = 0]
        ELSE [x EXCEPT !.web = cleanupAudio(@, r.sourceRef, r.audioContextRef),
                       !.ls.refs.sourceRef = 0,
                       !.ls.refs.audioContextRef = NoCtx,
                       !.ls.refs.analyserRef = 0,
                       !.ls.refs.connectedAudioElementRef = 0]

\* cleanup, lines 111-123: the Three.js side
CleanupThreeSide(x) ==
    [x EXCEPT !.web = cleanupThreeScene(@, x.ls.refs.sceneRef),
              !.ls.refs.sceneRef = 0,
              !.ls.refs.built = NoProps,
              !.ls.refs.builtView = NoView,
              !.ls.refs.meshDisplacement = <<>>,
              !.ls.refs.heightsRef = <<>>,
              !.ls.refs.dataRef = <<>>,
              !.ls.refs.indexBuffer = <<>>,
              !.ls.refs.cameraZ = 0,
              !.ls.refs.uniforms = NoView]

cleanup(x) == CleanupThreeSide(CleanupAudioSide(CleanupFrame(x)))

\* a finished init keeps only what the animate closure of its chain reads
SetPc(x, id, pc) ==
    IF pc = "done"
    THEN [x EXCEPT !.ls.runs[id] =
            [pc |-> "done",
             props |-> [NoProps EXCEPT !.frequencySamples =
                                         x.ls.runs[id].props.frequencySamples],
             view |-> NoView]]
    ELSE [x EXCEPT !.ls.runs[id].pc = pc]

\* initializeAudio, radio input (lines 204-255); the run goes on to "three"
\* with an audio state, or is done when initializeAudio returned null
InitializeAudioRadio(x, id) ==
    LET r  == x.ls.refs
        e  == x.ls.runs[id].props.audioElement
        isSameAudioElement == r.connectedAudioElementRef = e
    IN  IF e = 0 THEN SetPc(x, id, "done")
        ELSE IF /\ isSameAudioElement
                /\ isAudioContextValid(x.web, r.audioContextRef)
                /\ r.sourceRef # 0
                /\ r.analyserRef # 0
        THEN SetPc(x, id, "three")
        ELSE IF isSameAudioElement THEN SetPc(x, id, "done")
        ELSE LET w1 == cleanupAudio(x.web, r.sourceRef, r.audioContextRef)
                 \* setupAudioPipeline: createAudioContext opens context id
                 w2 == [w1 EXCEPT !.openCtx = @ \cup {id}]
             IN  IF e \in w2.boundElems
                 THEN \* createMediaElementSource throws 'already connected'
                      SetPc([x EXCEPT !.web = w2,
                                      !.ls.refs.connectedAudioElementRef = e],
                            id, "done")
                 ELSE SetPc([x EXCEPT
                               !.web = [w2 EXCEPT !.boundElems = @ \cup {e},
                                                  !.connected = @ \cup {id}],
                               !.ls.refs.audioContextRef = RadioCtx(id),
                               !.ls.refs.analyserRef = id,
                               !.ls.refs.sourceRef = id,
                               !.ls.refs.connectedAudioElementRef = e,
                               !.ls.refs.connectedMicStreamRef = 0],
                            id, "three")

\* initializeAudio, mic input, up to await ensureAudioContextRunning
\* (lines 135-175)
InitializeAudioMic(x, id) ==
    LET r  == x.ls.refs
        ms == x.ls.runs[id].props.micStream
        mc == MicCtx(x.ls.runs[id].props.micAudioContext)
        isSameMicStream == r.connectedMicStreamRef = ms
    IN  IF ~isAudioContextValid(x.web, mc) THEN SetPc(x, id, "done")
        ELSE IF /\ isSameMicStream
                /\ isAudioContextValid(x.web, r.audioContextRef)
                /\ r.sourceRef # 0
                /\ r.analyserRef # 0
        THEN SetPc(x, id, "three")
        ELSE LET w1 == IF r.audioContextRef.kind # "none" /\ r.audioContextRef # mc
                       THEN cleanupAudio(x.web, r.sourceRef, r.audioContextRef)
                       ELSE x.web
             IN  SetPc([x EXCEPT !.web = w1, !.ls.refs.audioContextRef = mc],
                       id,
                       IF w1.ctxState[mc.id] = "suspended"
                       THEN "ensureResume" ELSE "ensure")

\* initializeAudio
initializeAudio(x, id) ==
    LET p == x.ls.runs[id].props
    IN  IF p.micStream # 0 /\ p.micAudioContext # 0
        THEN InitializeAudioMic(x, id)
        ELSE InitializeAudioRadio(x, id)

\* initializeAudio, mic input, after ensureAudioContextRunning returned
\* resumed (lines 176-201), with createMicAudioPipeline
InitializeAudioMicPipeline(x, id, resumed) ==
    LET ms == x.ls.runs[id].props.micStream
        mc == MicCtx(x.ls.runs[id].props.micAudioContext)
    IN  IF ~resumed \/ ~isAudioContextValid(x.web, mc) THEN SetPc(x, id, "done")
        ELSE IF ms \notin x.web.live
        THEN SetPc(x, id, "done")  \* 'No active audio tracks', caught
        ELSE SetPc([x EXCEPT !.web.connected = @ \cup {id},
                             !.ls.refs.analyserRef = id,
                             !.ls.refs.sourceRef = id,
                             !.ls.refs.connectedMicStreamRef = ms,
                             !.ls.refs.connectedAudioElementRef = 0],
                   id, "three")

\* validateParameters(...).valid
validateParameters(xsize, ysize, frequencySamples, timeSamples) ==
    xsize > 0 /\ ysize > 0 /\ frequencySamples > 0 /\ timeSamples > 0

\* initializeThree, with the props of run id
initializeThree(x, id) ==
    LET p == x.ls.runs[id].props
        v == x.ls.runs[id].view
        g == generateVertices(p.timeSamples, p.frequencySamples)
    IN  IF ~x.ls.refs.containerRef THEN x
        ELSE IF ~validateParameters(p.xsize, p.ysize, p.frequencySamples,
                                    p.timeSamples)
        THEN x
        ELSE [x EXCEPT
                !.web = [cleanupThreeScene(@, x.ls.refs.sceneRef) EXCEPT
                            !.renderers = @ \cup {id},
                            !.listeners = @ \cup {id}],
                !.ls.refs.sceneRef = id,
                !.ls.refs.built = p,
                !.ls.refs.builtView = v,
                !.ls.refs.meshDisplacement = g.heights,
                !.ls.refs.heightsRef = g.heights,
                !.ls.refs.nVerticesRef = g.nVertices,
                !.ls.refs.indexBuffer =
                    generateIndices(p.timeSamples, p.frequencySamples),
                !.ls.refs.cameraZ = v.zoom,
                !.ls.refs.uniforms = [v EXCEPT !.zoom = 0],
                !.ls.refs.dataRef = Zeros(p.frequencySamples),
                !.ls.refs.resizeHandlerRef = id]

\* the guard of startAnimation and of animate
RefsReady(r) ==
    /\ r.analyserRef # 0
    /\ r.sceneRef # 0
    /\ r.dataRef # <<>>
    /\ r.heightsRef # <<>>

\* startAnimation, for the init of run id
startAnimation(x, id) ==
    IF ~RefsReady(x.ls.refs) THEN x
    ELSE [x EXCEPT !.web.raf = @ \cup {id}, !.ls.refs.animationFrameRef = id]

\* animate of chain id: its closure holds the frequencySamples of run id
animate(x, id) ==
    LET r == x.ls.refs
        f == x.ls.runs[id].props.frequencySamples
    IN  IF ~RefsReady(r) THEN [x EXCEPT !.web.raf = @ \ {id}]
        ELSE IF f > Len(r.dataRef)
        THEN \* dataArray.set(tempData) throws RangeError: the frame ends
             [x EXCEPT !.web.raf = @ \ {id}, !.ls.uncaught = TRUE]
        ELSE LET s == AnimateFrame(
                        FrameState(r.heightsRef, r.dataRef, r.meshDisplacement,
                                   r.meshDisplacement, f, r.nVerticesRef),
                        [k \in 1..f |-> Level])
             IN  [x EXCEPT !.ls.refs.heightsRef = s.heights,
                           !.ls.refs.dataRef = s.dataArray,
                           !.ls.refs.meshDisplacement = s.displacement,
                           !.ls.refs.animationFrameRef = id]

\* init, from its start to its first await (lines 380-391)
InitStart(x, id) ==
    LET mc == x.ls.runs[id].props.micAudioContext
    IN  IF mc # 0 /\ x.web.ctxState[mc] = "suspended"
        THEN SetPc(x, id, "resume")
        ELSE initializeAudio(x, id)

\* init, after await initializeAudio() gave an audio state (lines 396-400)
InitFinish(x, id) ==
    SetPc(startAnimation(initializeThree(x, id), id), id, "done")

\* the main effect's body for freshly rendered props p (lines 373-406)
EffectRun(x, p) ==
    IF ~p.isActive \/ (p.audioElement = 0 /\ p.micStream = 0)
    THEN [cleanup(x) EXCEPT !.ls.hasCleanup = FALSE]
    ELSE IF x.ls.nRuns >= MaxRuns THEN [x EXCEPT !.ls.full = TRUE]
    ELSE LET id == x.ls.nRuns + 1
         IN  InitStart([x EXCEPT !.ls.nRuns = id,
                                 !.ls.hasCleanup = TRUE,
                                 !.ls.runs[id] = [pc |-> "start", props |-> p,
                                                  view |-> x.ls.view]],
                       id)

\* the cleanup function the previous run of the effect returned, if any
EffectCleanup(x) == IF x.ls.hasCleanup THEN cleanup(x) ELSE x


-----------------------------------------------------------------------------
(* RadioPlayer.                                                             *)

\* the props RadioPlayer renders into <LiveSpectrogram> (lines 236-250)
RenderProps(r) ==
    [isActive |-> (r.isRadioActive /\ r.audioElement # 0) \/ r.isMicActive,
     audioElement |-> IF r.isRadioActive THEN r.audioElement ELSE 0,
     micStream |-> IF r.isMicActive THEN r.micStreamRef ELSE 0,
     micAudioContext |-> IF r.isMicActive THEN r.micAudioContextRef ELSE 0,
     frequencySamples |-> r.frequencySamples,
     timeSamples |-> r.timeSamples,
     xsize |-> r.xsize,
     ysize |-> r.ysize]

\* zoom, maxHeight and colorScheme as RadioPlayer renders them
RenderView(r) ==
    [zoom |-> r.zoom, maxHeight |-> r.maxHeight, colorScheme |-> r.colorScheme]

\* the view effects if they tore the session down as the main effect does
ViewEffectsRebuild(x, old, new) == cleanup(x)

\* the effects on [zoom] and on [maxHeight, colorScheme] (lines 421-437)
\* after a render passed view new where the render before passed old
ViewEffects(x, old, new) ==
    LET x1 == IF new.zoom # old.zoom /\ x.ls.refs.sceneRef # 0
              THEN [x EXCEPT !.ls.refs.cameraZ = new.zoom]
              ELSE x
    IN  IF /\ <<new.maxHeight, new.colorScheme>>
                # <<old.maxHeight, old.colorScheme>>
           /\ x.ls.refs.sceneRef # 0
        THEN [x1 EXCEPT !.ls.refs.uniforms = [new EXCEPT !.zoom = 0]]
        ELSE x1

\* whether <LiveSpectrogram> is rendered at all (line 232)
Rendered(r) == r.isRadioActive \/ r.isMicActive

\* React commits a render of RadioPlayer with state r: LiveSpectrogram is
\* mounted, re-rendered (its effect re-runs when a dependency changed: the
\* previous run's cleanup, then the body) or unmounted.
Commit(r, x) ==
    LET p == RenderProps(r)
        v == RenderView(r)
    IN  CASE x.ls.mounted = "none" /\ Rendered(r) ->
                EffectRun([x EXCEPT !.ls.mounted = "mounted",
                                    !.ls.props = p,
                                    !.ls.view = v,
                                    !.ls.refs.containerRef = p.isActive], p)
          [] x.ls.mounted = "mounted" /\ Rendered(r) /\ p # x.ls.props ->
                EffectRun(EffectCleanup(
                            [x EXCEPT !.ls.props = p,
                                      !.ls.view = v,
                                      !.ls.refs.containerRef = p.isActive]), p)
          [] x.ls.mounted = "mounted" /\ Rendered(r) ->
                ViewEffects([x EXCEPT !.ls.view = v], x.ls.view, v)
          [] x.ls.mounted = "mounted" /\ ~Rendered(r) ->
                [EffectCleanup([x EXCEPT !.ls.refs.containerRef = FALSE])
                    EXCEPT !.ls.mounted = "gone", !.ls.hasCleanup = FALSE,
                           !.ls.props = NoProps, !.ls.view = NoView]
          [] OTHER -> x

\* the radio half of the handlers: the branch of handleStartRadio that stops
StopRadio(r) ==
    [r EXCEPT !.isRadioActive = FALSE, !.error = "none",
              !.radioAudioRef = 0, !.audioElement = 0]

\* handleTurnOnMic's stop branch up to its await: stopMicrophone stops the
\* tracks and calls close(); the handler waits for it
StopMicBegin(c) ==
    [c EXCEPT !.web.live = @ \ {c.rp.micStreamRef},
              !.pend.stops = Append(@, c.rp.micAudioContextRef)]

\* handleStartRadio on c = [rp, pend, web]; the <audio> element is mounted
\* with isRadioActive and the effect of lines 85-127 stores it in audioElement
handleStartRadio(c) ==
    IF c.rp.isRadioActive
    THEN [c EXCEPT !.rp = StopRadio(@)]
    ELSE LET c1 == IF c.rp.isMicActive THEN StopMicBegin(c) ELSE c
             e  == c1.web.nElems + 1
         IN  [c1 EXCEPT !.web.nElems = e,
                        !.pend.plays = @ + 1,
                        !.rp.error = "none",
                        !.rp.isRadioActive = TRUE,
                        !.rp.radioAudioRef = e,
                        !.rp.audioElement = e]

\* the timer of handleStartRadio and the play() it starts (lines 151-168):
\* the timer finds no element ("skipped"), play() resolves ("played") or
\* play() rejects ("failed")
AfterRadioTimer(c, outcome) ==
    CASE outcome = "skipped" -> [c EXCEPT !.pend.plays = @ - 1]
      [] outcome = "played"  -> [c EXCEPT !.pend.plays = @ - 1,
                                          !.rp.error = "none"]
      [] OTHER -> [c EXCEPT !.pend.plays = @ - 1,
                            !.rp = [StopRadio(@) EXCEPT !.error = "play"]]

\* handleError showing the message and leaving the radio on
handleErrorMessageOnly(c) == [c EXCEPT !.rp.error = "media"]

\* handleError, the listener of the <audio> element's error event
\* (lines 93-115)
handleError(c) == [c EXCEPT !.rp = [StopRadio(@) EXCEPT !.error = "media"]]

\* handleTurnOnMic up to its first await
handleTurnOnMic(c) ==
    IF c.rp.isMicActive
    THEN StopMicBegin(c)
    ELSE LET c1 == IF c.rp.isRadioActive THEN [c EXCEPT !.rp = StopRadio(@)]
                   ELSE c
         IN  [c1 EXCEPT !.rp.error = "none", !.pend.requests = @ + 1]

\* handleTurnOnMic after await stopMicrophone(...) (lines 176-179)
AfterStopMicrophone(c, i) ==
    LET m == c.pend.stops[i]
    IN  [c EXCEPT !.pend.stops = SubSeq(@, 1, i - 1) \o SubSeq(@, i + 1, Len(@)),
                  !.web = IF m # 0 THEN CloseContext(@, MicCtx(m)) ELSE @,
                  !.rp.micStreamRef = 0,
                  !.rp.micAudioContextRef = 0,
                  !.rp.isMicActive = FALSE,
                  !.rp.error = "none"]

\* handleTurnOnMic after requestMicrophoneAccess resolved (lines 189-192)
AfterMicrophoneGranted(c) ==
    LET m == c.web.nMics + 1
    IN  [c EXCEPT !.pend.requests = @ - 1,
                  !.web.nMics = m,
                  !.web.live = @ \cup {m},
                  !.web.ctxState[m] = "running",
                  !.rp.micStreamRef = m,
                  !.rp.micAudioContextRef = m,
                  !.rp.isMicActive = TRUE]

\* handleTurnOnMic after requestMicrophoneAccess rejected (lines 193-197)
AfterMicrophoneDenied(c) ==
    [c EXCEPT !.pend.requests = @ - 1,
              !.rp.error = "mic",
              !.rp.isMicActive = FALSE]

-----------------------------------------------------------------------------
(* Spec: the session.                                                       *)

Here == [rp |-> rp, pend |-> pend, web |-> web]

\* no init is between two microtasks: the browser runs other tasks
Quiet == \A id \in Runs : ls.runs[id].pc \notin {"start", "ensure", "three"}

\* the session is Running: the tick loop is scheduled on a scene built from
\* the rendered props
Running(x) ==
    /\ x.ls.mounted = "mounted"
    /\ RefsReady(x.ls.refs)
    /\ x.ls.refs.animationFrameRef # 0
    /\ x.ls.refs.animationFrameRef \in x.web.raf
    /\ x.ls.refs.built = x.ls.props

\* a tick has written the buffer
Written(h) == \E k \in 1..Len(h) : h[k] # 0

\* the React state RadioPlayer renders from
Sources(r) == <<r.isRadioActive, r.isMicActive, r.error, r.audioElement>>
Structure(r) == <<r.frequencySamples, r.timeSamples, r.xsize, r.ysize>>

\* a RadioPlayer handler or continuation ends with state c: React renders if
\* the state changed, and LiveSpectrogram's effect reacts
Finish(c) ==
    LET x == [ls |-> ls, web |-> c.web]
        changed == \/ Sources(c.rp) # Sources(rp)
                   \/ Structure(c.rp) # Structure(rp)
                   \/ RenderView(c.rp) # RenderView(rp)
        y == IF changed THEN Commit(c.rp, x) ELSE x
        m == ls.props.micAudioContext
        z == [y EXCEPT
                !.ls.rebuilding =
                    IF changed
                    THEN /\ Sources(c.rp) = Sources(rp)
                         /\ RenderView(c.rp) = RenderView(rp)
                         /\ Running([ls |-> ls, web |-> web])
                         /\ m # 0 => web.ctxState[m] = "running"
                    ELSE @,
                !.ls.discarded =
                    IF y.ls.nRuns # ls.nRuns /\ ls.mounted = "mounted"
                    THEN Written(ls.refs.heightsRef)
                    ELSE @]
    IN  /\ ~y.ls.full
        /\ rp' = c.rp
        /\ pend' = c.pend
        /\ ls' = z.ls
        /\ web' = z.web
        /\ UNCHANGED <<tickVars, td, calc, loop>>

\* The model follows one LiveSpectrogram instance, from its mount to its
\* unmount; after the unmount only the pending continuations go on.
PressRadio ==
    /\ Quiet
    /\ ls.mounted # "gone"
    /\ rp.isRadioActive \/ (web.nElems < MaxElems /\ pend.plays < MaxPlays)
    /\ ~rp.isRadioActive /\ rp.isMicActive => Len(pend.stops) < MaxStops
    /\ Finish(handleStartRadio(Here))

PressMic ==
    /\ Quiet
    /\ ls.mounted # "gone"
    /\ IF rp.isMicActive THEN Len(pend.stops) < MaxStops
       ELSE pend.requests < MaxReqs
    /\ Finish(handleTurnOnMic(Here))

RadioTimer ==
    /\ Quiet
    /\ pend.plays > 0
    /\ \E outcome \in {"skipped", "played", "failed"} :
          /\ outcome = "skipped" => rp.radioAudioRef = 0
          /\ outcome = "played" => rp.radioAudioRef # 0
          /\ Finish(AfterRadioTimer(Here, outcome))

AudioError ==
    /\ Quiet
    /\ rp.radioAudioRef # 0
    /\ Finish(handleError(Here))

StopMicrophoneDone ==
    /\ Quiet
    /\ \E i \in 1..Len(pend.stops) : Finish(AfterStopMicrophone(Here, i))

MicrophoneGranted ==
    /\ Quiet
    /\ pend.requests > 0
    /\ web.nMics < MaxMics
    /\ Finish(AfterMicrophoneGranted(Here))

MicrophoneDenied ==
    /\ Quiet
    /\ pend.requests > 0
    /\ Finish(AfterMicrophoneDenied(Here))

\* the setters RadioPlayer hands to the controls. The control panel is not
\* modelled: it disables the four sliders while isRadioActive, and
\* LiveSpectrogram takes the values as props whatever its parent is.
SetFrequencySamples ==
    /\ Quiet
    /\ ls.mounted # "gone"
    /\ \E v \in FreqValues \ {rp.frequencySamples} :
          Finish([Here EXCEPT !.rp.frequencySamples = v])

SetTimeSamples ==
    /\ Quiet
    /\ ls.mounted # "gone"
    /\ \E v \in TimeValues \ {rp.timeSamples} :
          Finish([Here EXCEPT !.rp.timeSamples = v])

SetXsize ==
    /\ Quiet
    /\ ls.mounted # "gone"
    /\ \E v \in XSizeValues \ {rp.xsize} : Finish([Here EXCEPT !.rp.xsize = v])

SetYsize ==
    /\ Quiet
    /\ ls.mounted # "gone"
    /\ \E v \in YSizeValues \ {rp.ysize} : Finish([Here EXCEPT !.rp.ysize = v])

SetZoom ==
    /\ Quiet
    /\ ls.mounted # "gone"
    /\ \E v \in ZoomValues \ {rp.zoom} : Finish([Here EXCEPT !.rp.zoom = v])

SetMaxHeight ==
    /\ Quiet
    /\ ls.mounted # "gone"
    /\ \E v \in MaxHeightValues \ {rp.maxHeight} :
          Finish([Here EXCEPT !.rp.maxHeight = v])

\* handleColorSchemePrev and handleColorSchemeNext
SetColorScheme ==
    /\ Quiet
    /\ ls.mounted # "gone"
    /\ \E v \in ColorSchemeValues \ {rp.colorScheme} :
          Finish([Here EXCEPT !.rp.colorScheme = v])

\* the browser suspends a running microphone context
Suspend ==
    /\ Quiet
    /\ web.nSuspends < MaxSuspends
    /\ \E m \in Mics :
          /\ web.ctxState[m] = "running"
          /\ web' = [web EXCEPT !.ctxState[m] = "suspended",
                                !.nSuspends = @ + 1]
    /\ ls' = [ls EXCEPT !.rebuilding = FALSE]
    /\ UNCHANGED <<rp, pend, tickVars, td, calc, loop>>

Step(y) ==
    /\ ls' = y.ls
    /\ web' = y.web
    /\ UNCHANGED <<rp, pend, tickVars, td, calc, loop>>

Now == [ls |-> ls, web |-> web]

\* context.resume() settles: it rejects on a closed context and when the
\* browser does not allow the context to start, else the context runs
Resumed(x, m, ok) ==
    IF x.web.ctxState[m] = "closed" \/ ~ok THEN x
    ELSE [x EXCEPT !.web.ctxState[m] = "running"]

\* init resumes after await micAudioContext.resume() (line 384)
InitResumed ==
    \E id \in Runs :
        /\ ls.runs[id].pc = "resume"
        /\ \E ok \in BOOLEAN :
              Step(initializeAudio(
                     Resumed(Now, ls.runs[id].props.micAudioContext, ok), id))

\* initializeAudio resumes after ensureAudioContextRunning awaited resume()
EnsureResumed ==
    \E id \in Runs :
        /\ ls.runs[id].pc = "ensureResume"
        /\ \E ok \in BOOLEAN :
              LET m == ls.runs[id].props.micAudioContext
              IN  Step(InitializeAudioMicPipeline(
                         Resumed(Now, m, ok), id,
                         ok /\ web.ctxState[m] # "closed"))

\* initializeAudio resumes after ensureAudioContextRunning returned true
EnsureReturned ==
    \E id \in Runs :
        /\ ls.runs[id].pc = "ensure"
        /\ Step(InitializeAudioMicPipeline(Now, id, TRUE))

\* init resumes after await initializeAudio()
InitContinued ==
    \E id \in Runs :
        /\ ls.runs[id].pc = "three"
        /\ Step(InitFinish(Now, id))

\* the browser runs a scheduled animation frame
Frame ==
    /\ Quiet
    /\ \E id \in web.raf : Step(animate(Now, id))

TickIdle == BuildState(1, 1)

Init ==
    /\ TickIdle
    /\ SessionStart(1, 1, 50, 30)
    /\ td = NoTeardown
    /\ calc = NoCall
    /\ loop = NoLoop

Next ==
    \/ PressRadio
    \/ PressMic
    \/ RadioTimer
    \/ AudioError
    \/ StopMicrophoneDone
    \/ MicrophoneGranted
    \/ MicrophoneDenied
    \/ SetFrequencySamples
    \/ SetTimeSamples
    \/ SetXsize
    \/ SetYsize
    \/ Suspend
    \/ InitResumed
    \/ EnsureResumed
    \/ EnsureReturned
    \/ InitContinued
    \/ Frame

Spec == Init /\ [][Next]_vars

\* SpecView: a session whose real-time parameters change while sources start,
\* switch and stop and the browser suspends the context
NextView ==
    \/ PressRadio
    \/ PressMic
    \/ StopMicrophoneDone
    \/ MicrophoneGranted
    \/ SetZoom
    \/ SetMaxHeight
    \/ SetColorScheme
    \/ Suspend
    \/ InitResumed
    \/ EnsureResumed
    \/ EnsureReturned
    \/ InitContinued
    \/ Frame

SpecView == Init /\ [][NextView]_vars


-----------------------------------------------------------------------------
(* Claims about the session, checked under Spec.                            *)

\* C4: radio and microphone are never both active in RadioPlayer, under any
\* interleaving of Start Radio / Turn on Mic presses with the completions of
\* stopMicrophone and requestMicrophoneAccess.
C4_SourcesMutuallyExclusive == ~(rp.isRadioActive /\ rp.isMicActive)

\* every resource of the LiveSpectrogram instance is released
Released ==
    /\ ls.refs.analyserRef = 0
    /\ ls.refs.sourceRef = 0
    /\ ls.refs.heightsRef = <<>>
    /\ ls.refs.dataRef = <<>>
    /\ ls.refs.sceneRef = 0
    /\ ls.refs.resizeHandlerRef = 0
    /\ ls.refs.animationFrameRef = 0
    /\ web.raf = {}

\* C5: once the session is deactivated (its cleanup ran and the instance is
\* not activated again), analyser, source, heights, renderer, resize handler
\* and scheduled tick are released and stay released, also when an init that
\* was awaiting at the deactivation resumes afterwards.
C5_ReleasedAfterDeactivation == ls.mounted = "gone" => Released

\* C6: there is never more than one scheduled animation-frame chain for a
\* LiveSpectrogram, also when the effect re-runs while an init is pending.
C6_AtMostOneTickChain == Cardinality(web.raf) <= 1

\* every init of the instance has run to its end
InitsSettled == \A id \in Runs : ls.runs[id].pc \in {"none", "done"}

\* C7: after a structural parameter changed under a Running session, the
\* teardown and re-initialization end with the session Running on geometry
\* built from the new values: once every init has run to its end, the tick
\* loop is active on a scene built from the rendered props.
C7_StructuralChangeRebuilds ==
    (ls.rebuilding /\ ls.mounted = "mounted" /\ InitsSettled
        /\ pend.stops = <<>>
        /\ validateParameters(ls.props.xsize, ls.props.ysize,
                              ls.props.frequencySamples, ls.props.timeSamples))
        => Running([ls |-> ls, web |-> web])

\* the session is Idle in x
Idle(x) ==
    /\ x.web.raf = {}
    /\ x.ls.refs.animationFrameRef = 0
    /\ x.ls.refs.analyserRef = 0
    /\ x.ls.refs.sourceRef = 0
    /\ x.ls.refs.heightsRef = <<>>
    /\ x.ls.refs.dataRef = <<>>
    /\ x.ls.refs.sceneRef = 0
    /\ ~x.ls.uncaught

\* C8: from any state, cleanup run twice in a row raises no error and leaves
\* the session Idle after the first call and after the second.
C8_CleanupTwiceLeavesIdle ==
    LET x == [ls |-> [ls EXCEPT !.uncaught = FALSE], web |-> web]
    IN  Idle(cleanup(x)) /\ Idle(cleanup(cleanup(x)))

\* C10: every re-initialization leaves a heights buffer that is freshly
\* allocated for the new geometry with every entry 0: the step that re-runs
\* the effect leaves no buffer, and the step in which initializeThree installs
\* a scene leaves the all-zero buffer of the run's timeSamples and
\* frequencySamples, whatever the ticks wrote before.
C10_RebuildYieldsZeroHeights ==
    [][/\ ls'.nRuns # ls.nRuns => ls'.refs.heightsRef = <<>>
       /\ (ls'.refs.sceneRef # ls.refs.sceneRef /\ ls'.refs.sceneRef # 0)
            => /\ ls'.refs.heightsRef =
                    Zeros(calculateVertexCount(ls'.refs.built.timeSamples,
                                               ls'.refs.built.frequencySamples))
               /\ ls'.refs.nVerticesRef = Len(ls'.refs.heightsRef)]_vars

\* C10 witness: a re-init discarded a buffer ticks had written, and the scene
\* its init built holds an all-zero buffer
C10_Witness ==
    /\ ls.discarded
    /\ ls.nRuns >= 2
    /\ ls.refs.sceneRef = ls.nRuns
    /\ ls.refs.heightsRef # <<>>
    /\ ~Written(ls.refs.heightsRef)


\* C12: when a structural parameter becomes non-positive while geometry is
\* displayed, the geometry build is skipped and the geometry built before
\* (scene, mesh, heights, renderer) stays in place.
C12_InvalidParameterKeepsGeometry ==
    (/\ ls.rebuilding
     /\ ls.mounted = "mounted"
     /\ ~validateParameters(ls.props.xsize, ls.props.ysize,
                            ls.props.frequencySamples, ls.props.timeSamples))
        => /\ ls.refs.sceneRef # 0
           /\ ls.refs.sceneRef \in web.renderers
           /\ ls.refs.heightsRef # <<>>

\* the catch branch of initializeAudio for an element that is already bound
\* has run: the element is marked as connected and there is no source
BoundElementRejected ==
    /\ ls.refs.connectedAudioElementRef # 0
    /\ ls.refs.connectedAudioElementRef \in web.boundElems
    /\ ls.refs.sourceRef = 0

\* C13: an attempt to bind an audio element that is already bound to an
\* analyser graph sets an error state for the user, does not crash, and
\* leaves the existing binding (source, analyser, context) in place.
C13_AlreadyBoundElementSurfaced ==
    BoundElementRejected
        => /\ rp.error # "none"
           /\ ~ls.uncaught
           /\ ls.refs.analyserRef # 0
           /\ ls.refs.audioContextRef # NoCtx

\* C14: a stop from any state first cancels the scheduled tick, then releases
\* the analyser and its audio connection, then releases the render resources:
\* after the first part of cleanup no tick is scheduled and nothing else is
\* released, after the second the analyser and source are released and the
\* renderer is still there, after the third the renderer is released; so no
\* tick is scheduled when the render resources go.
C14_StopOrder ==
    LET a == CleanupFrame(Now)
        b == CleanupAudioSide(a)
        c == CleanupThreeSide(b)
    IN  /\ a.web.raf = {}
        /\ a.ls.refs.analyserRef = ls.refs.analyserRef
        /\ a.web.connected = web.connected
        /\ a.web.renderers = web.renderers
        /\ b.ls.refs.analyserRef = 0
        /\ b.ls.refs.sourceRef = 0
        /\ ls.refs.sourceRef \notin b.web.connected
        /\ b.web.renderers = web.renderers
        /\ c.ls.refs.sceneRef = 0
        /\ ls.refs.sceneRef \notin c.web.renderers
        /\ c.web.raf = {}

\* C15: when the handler of an explicit stop (Stop Radio, Turn off Mic) has
\* returned control, the teardown of the session has completed: no tick of
\* the stopped session is scheduled while the stop of the microphone is
\* still awaiting stopMicrophone.
C15_StopTearsDownBeforeReturning ==
    pend.stops # <<>> => web.raf = {}

\* C16: when acquiring a source failed (microphone request rejected, radio
\* play() rejected) an error message is set and the session has ended with no
\* source active: while the message of a failed acquisition is shown, neither
\* radio nor microphone is active.
C16_FailedAcquisitionEndsIdle ==
    rp.error \in {"mic", "play"} => ~rp.isRadioActive /\ ~rp.isMicActive

-----------------------------------------------------------------------------
(* Claims about the real-time parameters, checked under SpecView.           *)

\* the refs without the camera position and the material uniforms
RefsButView(r) == [r EXCEPT !.cameraZ = 0, !.uniforms = NoView]

C36_SceneShowsCurrentView ==
    (ls.mounted = "mounted" /\ ls.refs.sceneRef # 0)
        => /\ ls.refs.cameraZ = ls.view.zoom
           /\ ls.refs.uniforms.maxHeight = ls.view.maxHeight
           /\ ls.refs.uniforms.colorScheme = ls.view.colorScheme


-----------------------------------------------------------------------------
(* Claims about the analyser, checked under Spec                             *)

\* C18: at every moment at most one analyser is live, that is, fed by a
\* source that has not been disconnected.
C18_AtMostOneLiveAnalyser == Cardinality(web.connected) <= 1

-----------------------------------------------------------------------------
(* Claims about the microphone context, checked under Spec                  *)

\* RadioPlayer's stopMicrophone has called close() on context m: the stop is
\* pending before or after this step
StoppedByRadioPlayer(m) ==
    \/ \E i \in 1..Len(pend.stops) : pend.stops[i] = m
    \/ \E i \in 1..Len(pend'.stops) : pend'.stops[i] = m

\* C29: LiveSpectrogram never closes the microphone AudioContext that
\* RadioPlayer owns: whenever the context RadioPlayer holds in
\* micAudioContextRef becomes closed, it is stopMicrophone that closed it.
C29_MicContextClosedOnlyByOwner ==
    [][\A m \in Mics :
          (/\ rp.micAudioContextRef = m
           /\ web.ctxState[m] # "closed"
           /\ web'.ctxState[m] = "closed")
          => StoppedByRadioPlayer(m)]_vars

-----------------------------------------------------------------------------
(* Claims about the geometry a tick works on, checked under Spec            *)

\* C30: whenever a tick runs, the frequencySamples it uses as column stride
\* and the vertex count it uses match the geometry from which the current
\* heights buffer was built: heights.length = nVertices =
\* (frequencySamples+1)*(timeSamples+1). Stated for every scheduled tick
\* whose guard would pass.
C30_TickMatchesBuiltGeometry ==
    \A id \in web.raf :
        RefsReady(ls.refs) =>
            LET f == ls.runs[id].props.frequencySamples
            IN  /\ f = ls.refs.built.frequencySamples
                /\ Len(ls.refs.dataRef) = f
                /\ Len(ls.refs.heightsRef) = ls.refs.nVerticesRef
                /\ ls.refs.nVerticesRef
                      = (f + 1) * (ls.refs.built.timeSamples + 1)

-----------------------------------------------------------------------------
(* Claims about RadioPlayer's deferred callbacks, checked under Spec         *)

\* C31: a deferred callback of an earlier Start Radio press (the 100 ms timer
\* or the settling of its play() promise) never changes isRadioActive or
\* error of a later state in which the user has stopped the radio: a step in
\* which such a callback runs while the radio is off and no error is shown
\* leaves both as they are.
C31_StaleRadioCallbackChangesNothing ==
    [][(/\ pend'.plays < pend.plays
        /\ ~rp.isRadioActive
        /\ rp.error = "none")
       => (/\ rp'.isRadioActive = rp.isRadioActive
           /\ rp'.error = rp.error)]_vars

\* the step is the error listener of the <audio> element acting on an
\* active radio
RadioErrorStep ==
    /\ rp.isRadioActive
    /\ rp.error # "media"
    /\ rp'.error = "media"

-----------------------------------------------------------------------------
(* Claims about the connected-source markers, checked under Spec            *)

\* the two markers and the refs of the pipeline they describe
SourceMarkers(r) ==
    <<r.connectedAudioElementRef, r.connectedMicStreamRef,
      r.sourceRef, r.analyserRef>>

\* C37: connectedAudioElementRef and connectedMicStreamRef are never both
\* set, and whenever a step changes a marker, the source or the analyser,
\* the analyser and the source it leaves are those of one pipeline, built
\* by the init whose input is the marker that is set.
C37_MarkersNameTheConnectedSource ==
    [][/\ ~(/\ ls'.refs.connectedAudioElementRef # 0
            /\ ls'.refs.connectedMicStreamRef # 0)
       /\ SourceMarkers(ls'.refs) # SourceMarkers(ls.refs)
            => /\ ls'.refs.analyserRef = ls'.refs.sourceRef
               /\ ls'.refs.sourceRef # 0
                    => LET p == ls'.runs[ls'.refs.sourceRef].props
                       IN  IF ls'.refs.connectedMicStreamRef # 0
                           THEN /\ p.micStream = ls'.refs.connectedMicStreamRef
                                /\ p.micAudioContext # 0
                           ELSE /\ ls'.refs.connectedAudioElementRef # 0
                                /\ p.audioElement
                                      = ls'.refs.connectedAudioElementRef
                                /\ ~(p.micStream # 0 /\ p.micAudioContext # 0)
      ]_vars

\* C37 witness: the microphone's pipeline is the connected one after an
\* <audio> element had been connected, and the radio is still on.
C37_Witness ==
    /\ ls.refs.connectedMicStreamRef # 0
    /\ ls.refs.connectedAudioElementRef = 0
    /\ ls.refs.sourceRef # 0
    /\ web.boundElems # {}
    /\ rp.isRadioActive

-----------------------------------------------------------------------------
(* Claims about teardown, checked under SpecTeardown                         *)

\* SpecTeardown: cleanup called on any refs, then again on what it left
InitTeardown ==
    /\ TickIdle
    /\ SessionStart(1, 1, 50, 30)
    /\ \E c \in TeardownRefs :
          td = [refs |-> c, first |-> c, out |-> NoOutcome, calls |-> 0]
    /\ calc = NoCall
    /\ loop = NoLoop

CallCleanup ==
    /\ td.calls < MaxCalls
    /\ td' = [td EXCEPT !.out = cleanupRun(td.refs),
                        !.refs = AfterCleanup(td.refs),
                        !.calls = @ + 1]
    /\ UNCHANGED <<tickVars, sessionVars, calc, loop>>

NextTeardown == CallCleanup

SpecTeardown == InitTeardown /\ [][NextTeardown]_vars

\* C17: teardown never throws: cleanup completes normally when
\* source.disconnect() throws, when the audio context is closed or its
\* close() rejects, and when any ref is already null, and every later
\* statement of the teardown still runs.
C17_TeardownNeverThrows ==
    td.calls > 0 =>
        /\ ~td.out.threw
        /\ ~td.out.unhandled
        /\ \E k \in 1..Len(td.out.log) : td.out.log[k] = "sourceRef = null"
        /\ \E k \in 1..Len(td.out.log) : td.out.log[k] = "analyserRef = null"
        /\ td.out.log[Len(td.out.log)] = "sceneRef = null"

\* C17 witness: cleanup ran on refs whose source throws on disconnect and
\* whose context was already closed
C17_Witness ==
    /\ td.calls = 1
    /\ td.first.sourceRef
    /\ td.first.disconnectThrows
    /\ td.first.audioContextRef = "closed"
    /\ \E k \in 1..Len(td.out.log) : td.out.log[k] = "disconnect"


-----------------------------------------------------------------------------
(* SpecCalc: each helper function is called once on arguments drawn from a  *)
(* bounded set.                                                              *)

MaxFrequencySamples == 520   \* frequencySamples arguments range up to this

\* frequencySamples arguments: around zero, the slider's range, and values
\* whose window exceeds the largest FFT size
FftArguments == (-2..MaxFrequencySamples) \cup {4096, 5000, 6000, 8192}

\* the values the frequency-resolution slider can select
SliderFrequencySamples == {64 * k : k \in 1..8}

\* colorScheme uniforms: the eleven schemes and values outside them
SchemeUniforms == -1..12

Displacements == 0..MaxDisplacement

\* arguments of validateParameters: around zero and the ends of the ranges
\* of the sliders and of VALIDATION_RANGES
XsizeArguments == {-1, 0, 1, 20, 100, 200}
YsizeArguments == {-1, 0, 1, 10, 50, 100}
FrequencySamplesArguments == {-1, 0, 64, 512}
TimeSamplesArguments == {-1, 0, 200, 1200}

MaxSegments == 3    \* frequency segments of a column range over 1..MaxSegments
MaxBase == 4        \* ysize ranges over b^segments for b in 2..MaxBase

InitCalc ==
    /\ TickIdle
    /\ SessionStart(1, 1, 50, 30)
    /\ td = NoTeardown
    /\ loop = NoLoop
    /\ \/ \E f \in FftArguments :
             calc = [fn |-> "calculateFFTSize", arg |-> f,
                     returned |-> FALSE, out |-> 0]
       \/ \E c \in SchemeUniforms, d \in Displacements :
             calc = [fn |-> "fragment",
                     arg |-> [colorScheme |-> c, displacement |-> d],
                     returned |-> FALSE, out |-> 0]
       \/ \E xs \in XsizeArguments, ys \in YsizeArguments,
             f \in FrequencySamplesArguments, t \in TimeSamplesArguments :
             calc = [fn |-> "validateParameters",
                     arg |-> [xsize |-> xs, ysize |-> ys,
                              frequencySamples |-> f, timeSamples |-> t],
                     returned |-> FALSE, out |-> 0]
       \/ \E n \in 1..MaxSegments, b \in 2..MaxBase :
             calc = [fn |-> "calculateLogarithmicY",
                     arg |-> [ysegments |-> n, ysize |-> Pow(b, n)],
                     returned |-> FALSE, out |-> 0]

CallCalculateFFTSize ==
    /\ calc.fn = "calculateFFTSize"
    /\ ~calc.returned
    /\ calc' = [calc EXCEPT !.returned = TRUE,
                            !.out = [used |-> calculateFFTSize(calc.arg),
                                     displayed |-> RadioPlayerFftSize(calc.arg),
                                     filled |-> BinsFilled(calc.arg,
                                                  calculateFFTSize(calc.arg))]]
    /\ UNCHANGED <<tickVars, sessionVars, td, loop>>

\* the fragment shader runs on a fragment of the given displacement
CallFragment ==
    /\ calc.fn = "fragment"
    /\ ~calc.returned
    /\ calc' = [calc EXCEPT
                  !.returned = TRUE,
                  !.out = [gradient |-> getColor(calc.arg.colorScheme,
                                                 calc.arg.displacement),
                           fragment |-> fragmentMain(calc.arg.colorScheme,
                                                     calc.arg.displacement)]]
    /\ UNCHANGED <<tickVars, sessionVars, td, loop>>

CallValidateParameters ==
    /\ calc.fn = "validateParameters"
    /\ ~calc.returned
    /\ calc' = [calc EXCEPT !.returned = TRUE,
                            !.out = validateParametersResult(calc.arg)]
    /\ UNCHANGED <<tickVars, sessionVars, td, loop>>

\* the inner loop of generateVertices: the y of each vertex j of a column
CallCalculateLogarithmicY ==
    /\ calc.fn = "calculateLogarithmicY"
    /\ ~calc.returned
    /\ calc' = [calc EXCEPT
                  !.returned = TRUE,
                  !.out = [j \in 0..calc.arg.ysegments |->
                              calculateLogarithmicY(j, calc.arg.ysegments,
                                                    calc.arg.ysize)]]
    /\ UNCHANGED <<tickVars, sessionVars, td, loop>>

NextCalc ==
    \/ CallCalculateFFTSize
    \/ CallFragment
    \/ CallValidateParameters
    \/ CallCalculateLogarithmicY

SpecCalc == InitCalc /\ [][NextCalc]_vars

FftReturned == calc.fn = "calculateFFTSize" /\ calc.returned

\* C22: calculateFFTSize(frequencySamples) is 2^round(log2(4*frequencySamples))
\* clamped to [256, 16384], always a power of two in that range; 256 gives
\* 1024, 64 gives 256, 512 gives 2048, and any frequencySamples <= 0 gives 256.
C22_FftSizeNearestPowerOfTwo ==
    FftReturned =>
        LET fs == calc.arg
            v  == 4 * fs
            r  == calc.out.used
        IN  /\ \E p \in 8..14 : r = Pow(2, p)
            /\ fs <= 0 => r = 256
            /\ fs > 0 =>
                  \E p \in 0..15 :
                      \* p = round(log2(v)): 2^(p - 1/2) <= v < 2^(p + 1/2)
                      /\ p > 0 => Pow(2, 2 * p - 1) <= v * v
                      /\ (v * v) \div 2 < Pow(4, p)
                      /\ r = Pow(2, IF p < 8 THEN 8 ELSE IF p > 14 THEN 14 ELSE p)
            /\ fs = 256 => r = 1024
            /\ fs = 64 => r = 256
            /\ fs = 512 => r = 2048

\* C22 witness: a window that is not a power of two was rounded, and one
\* beyond the largest FFT size was clamped
C22_Witness ==
    /\ FftReturned
    /\ calc.arg \in {192, 8192}
    /\ calc.out.used \in {1024, 16384}

\* C23: for every frequencySamples the control surface can select (64..512
\* in steps of 64) the FFT size used and the FFT size displayed equal
\* 4 * frequencySamples.
C23_FftSizeIsFourTimesResolution ==
    (FftReturned /\ calc.arg \in SliderFrequencySamples) =>
        /\ calc.out.used = 4 * calc.arg
        /\ calc.out.displayed = 4 * calc.arg


FragmentReturned == calc.fn = "fragment" /\ calc.returned

\* C24: for each of the eleven colour schemes (uniforms 0..10) and for any
\* other uniform value, a fragment whose intensity is below 0.01
\* (displacement 0, 1 or 2 of 255) is coloured with that scheme's fixed dark
\* tint and not with the value of the scheme's gradient at that intensity.
C24_DarkTintBelowThreshold ==
    (FragmentReturned /\ calc.arg.displacement \in 0..2) =>
        /\ calc.out.fragment = darkTint(calc.arg.colorScheme)
        /\ calc.out.fragment # calc.out.gradient
        /\ calc.out.fragment # getColor(calc.arg.colorScheme, 0)

\* C24 witness: a fragment of displacement 2 was coloured under a uniform
\* outside 0..10
C24_Witness ==
    /\ FragmentReturned
    /\ calc.arg.displacement = 2
    /\ calc.arg.colorScheme = 11
    /\ calc.out.fragment = Hundredths(8, 7, 15)

\* C25: under the grayscale scheme, intensity 1.0 (displacement 255) produces
\* the colour (1, 1, 1).
C25_GrayscaleFullIntensityIsWhite ==
    (FragmentReturned /\ calc.arg.colorScheme = 7
        /\ calc.arg.displacement = MaxDisplacement) =>
        calc.out.fragment = <<Unit, Unit, Unit>>


ValidateReturned == calc.fn = "validateParameters" /\ calc.returned

\* how often name occurs in errors
Occurrences(errors, name) ==
    Cardinality({k \in 1..Len(errors) : errors[k] = name})

\* C26: validateParameters returns valid = true exactly when xsize, ysize,
\* frequencySamples and timeSamples are all > 0, otherwise valid = false with
\* exactly one error entry per offending field; every parameter combination
\* the control surface can produce is accepted.
C26_ValidateParameters ==
    ValidateReturned =>
        LET a == calc.arg
            e == calc.out.errors
        IN  /\ calc.out.valid <=>
                  (a.xsize > 0 /\ a.ysize > 0
                      /\ a.frequencySamples > 0 /\ a.timeSamples > 0)
            /\ Occurrences(e, "xsize") = IF a.xsize > 0 THEN 0 ELSE 1
            /\ Occurrences(e, "ysize") = IF a.ysize > 0 THEN 0 ELSE 1
            /\ Occurrences(e, "frequencySamples")
                  = IF a.frequencySamples > 0 THEN 0 ELSE 1
            /\ Occurrences(e, "timeSamples") = IF a.timeSamples > 0 THEN 0 ELSE 1
            /\ Len(e) = Occurrences(e, "xsize") + Occurrences(e, "ysize")
                          + Occurrences(e, "frequencySamples")
                          + Occurrences(e, "timeSamples")
            /\ (a.xsize >= 1 /\ a.ysize >= 1 /\ a.frequencySamples >= 64
                   /\ a.timeSamples >= 200) => calc.out.valid
            /\ validateParameters(a.xsize, a.ysize, a.frequencySamples,
                                  a.timeSamples) = calc.out.valid

\* C26 witness: a call with two offending fields returned two errors
C26_Witness ==
    /\ ValidateReturned
    /\ calc.arg.xsize = 0
    /\ calc.arg.timeSamples = -1
    /\ calc.arg.ysize > 0
    /\ calc.arg.frequencySamples > 0
    /\ ~calc.out.valid
    /\ Len(calc.out.errors) = 2


LogarithmicYReturned == calc.fn = "calculateLogarithmicY" /\ calc.returned

\* C27: the frequency axis places the lowest frequency bin (index j = 0) at
\* y near +ysize/2 (within one unit of it), and y is strictly monotonic in
\* the frequency index j from 0 to frequencySamples.
C27_LowFrequenciesAtPositiveEdge ==
    LogarithmicYReturned =>
        LET y == calc.out
            n == calc.arg.ysegments
            top == calc.arg.ysize          \* +ysize / 2, in halves
        IN  /\ y[0] - top <= 2
            /\ top - y[0] <= 2
            /\ \/ \A j \in 0..(n - 1) : y[j] < y[j + 1]
               \/ \A j \in 0..(n - 1) : y[j] > y[j + 1]


\* C38: for every frequencySamples in 64..512 (step 64) the analyser's bin
\* count (FFT size / 2) is at least frequencySamples, so each of the
\* frequencySamples entries of a sample column is filled from an analyser bin.
C38_BinCountCoversSampleColumn ==
    (FftReturned /\ calc.arg \in SliderFrequencySamples) =>
        /\ 2 * frequencyBinCount(calc.out.used) = calc.out.used
        /\ frequencyBinCount(calc.out.used) >= calc.arg
        /\ calc.out.filled = calc.arg

\* C38 witness: the call returned for the largest slider position, whose
\* sample column has 512 entries
C38_Witness ==
    /\ FftReturned
    /\ calc.arg = 512
    /\ calc.out.filled = 512

\* C39: the FFT size RadioPlayer computes for display equals the FFT size
\* calculateFFTSize sets on the analyser, for every frequencySamples value,
\* positive, zero or negative.
C39_DisplayedFftSizeIsUsedFftSize ==
    FftReturned => calc.out.displayed = calc.out.used

\* C39 witness: the call returned for a negative frequencySamples, with both
\* sizes at the minimum
C39_Witness ==
    /\ FftReturned
    /\ calc.arg < 0
    /\ calc.out.displayed = MIN_FFT_SIZE


-----------------------------------------------------------------------------
(* SpecLoop: the loop returned by createAnimationLoop(state), run by an      *)
(* owner that starts it and later stops the session.                         *)

InitLoop ==
    /\ \E t \in TimeValues, f \in FreqValues : BuildState(t, f)
    /\ SessionStart(1, 1, 50, 30)
    /\ td = NoTeardown
    /\ calc = NoCall
    /\ loop = NoLoop

\* the owner passes the returned animate to requestAnimationFrame
LoopStart ==
    /\ ~loop.scheduled
    /\ ~loop.stopped
    /\ loop.frames = 0
    /\ loop' = [loop EXCEPT !.scheduled = TRUE]
    /\ UNCHANGED <<tickVars, sessionVars, td, calc>>

\* the browser runs the scheduled animate (lines 77-107): no condition is
\* read before the update, the render and requestAnimationFrame(animate)
LoopFrame(sample) ==
    /\ loop.scheduled
    /\ ticks < MaxTicks
    /\ LET s == AnimateFrame(
                   FrameState(heights, dataArray, displacement, frame,
                              geo.frequencySamples, geo.nVertices), sample)
       IN  /\ heights' = s.heights
           /\ dataArray' = s.dataArray
           /\ displacement' = s.displacement
           /\ frame' = s.frame
           /\ order' = s.steps
           /\ loop' = [loop EXCEPT
                         !.scheduled = s.scheduled,
                         !.frames = @ + 1,
                         !.afterStop = IF loop.stopped THEN @ + 1 ELSE @]
    /\ before' = heights
    /\ lastSample' = sample
    /\ ticks' = ticks + 1
    /\ UNCHANGED <<geo, sessionVars, td, calc>>

\* the owner stops the session: it can cancel the frame it requested itself,
\* but animate discards the ids of the frames it requests (line 106)
LoopStop ==
    /\ ~loop.stopped
    /\ loop.scheduled
    /\ loop' = [loop EXCEPT !.stopped = TRUE,
                            !.scheduled = IF loop.frames = 0 THEN FALSE ELSE @]
    /\ UNCHANGED <<tickVars, sessionVars, td, calc>>

NextLoop ==
    \/ LoopStart
    \/ \E sample \in [1..geo.frequencySamples -> Bytes] : LoopFrame(sample)
    \/ LoopStop

SpecLoop == InitLoop /\ [][NextLoop]_vars

\* C34: every tick loop checks a cancellation condition before the next tick
\* does any work, so that once the session is stopped no further tick
\* updates heights or draws and the loop stops rescheduling itself; stated
\* for the loop returned by createAnimationLoop.
C34_StoppedLoopDoesNoWork ==
    loop.stopped => loop.afterStop = 0

=============================================================================
